---- MODULE Spec2Model ----
(***************************************************************************)
(* A model of src/src/tafsir_processor.py: MemoryEfficientProcessor and    *)
(* main().  Python strings are sequences of one-character strings, so that *)
(* the regular expressions of the source act on characters as re does.     *)
(* An optional value (dict.get -> None) is a sequence of length 0 or 1.    *)
(***************************************************************************)
EXTENDS Integers, Sequences, FiniteSets, TLC

VARIABLES
    file,            \* the source artifact on disk: "missing", "unreadable", "ok"
    doc,             \* the tree LET.parse returns for a readable artifact
    pc,              \* position of the run
    si,              \* position of the `for sura in root.findall("sura")` loop
    ai,              \* position of the `for aya in sura.findall("aya")` loop
    sura_info,       \* chapter-scoped locals of process_tafsir_file
    aya_entries,
    footer_mapping,
    files,           \* OUTPUT_DIR: file name -> the sura_output written there
    log              \* tafsir_processor.log, in order

vars == <<file, doc, pc, si, ai, sura_info, aya_entries, footer_mapping, files, log>>

(***************************************************************************)
(* Bounds of the model.                                                    *)
(***************************************************************************)
MaxSuras == 2       \* chapters per document
MaxUnits == 3       \* aya/footer elements per document (all chapters together)
MaxLen == 6         \* characters of a generated verse text

(***************************************************************************)
(* Strings.                                                                *)
(***************************************************************************)
None == <<>>
Some(v) == <<v>>
EmptyMap == [k \in {} |-> <<>>]

DecimalDigits == {"0", "1", "2", "3", "4", "5", "6", "7", "8", "9"}
\* Characters for which str.isdigit() is true and int() raises ValueError:
\* the superscript digits ("sup2" stands for U+00B2).
SuperscriptDigits == {"sup2"}
Whitespace == {" ", "\t", "\n"}

UpperToLower ==
    [c \in {"A","B","C","D","E","F","G","H","I","J","K","L","M","N","O","P","Q",
            "R","S","T","U","V","W","X","Y","Z"} |->
       CASE c = "A" -> "a" [] c = "B" -> "b" [] c = "C" -> "c" [] c = "D" -> "d"
         [] c = "E" -> "e" [] c = "F" -> "f" [] c = "G" -> "g" [] c = "H" -> "h"
         [] c = "I" -> "i" [] c = "J" -> "j" [] c = "K" -> "k" [] c = "L" -> "l"
         [] c = "M" -> "m" [] c = "N" -> "n" [] c = "O" -> "o" [] c = "P" -> "p"
         [] c = "Q" -> "q" [] c = "R" -> "r" [] c = "S" -> "s" [] c = "T" -> "t"
         [] c = "U" -> "u" [] c = "V" -> "v" [] c = "W" -> "w" [] c = "X" -> "x"
         [] c = "Y" -> "y" [] c = "Z" -> "z"]

LowerChar(c) == IF c \in DOMAIN UpperToLower THEN UpperToLower[c] ELSE c

\* str.lower()
Lower(s) == [i \in 1..Len(s) |-> LowerChar(s[i])]

RECURSIVE LStrip(_)
LStrip(s) == IF s # <<>> /\ Head(s) \in Whitespace THEN LStrip(Tail(s)) ELSE s

RECURSIVE RStrip(_)
RStrip(s) ==
    IF s # <<>> /\ s[Len(s)] \in Whitespace THEN RStrip(SubSeq(s, 1, Len(s) - 1)) ELSE s

\* str.strip()
Strip(s) == RStrip(LStrip(s))

\* str.isdigit(): non-empty and every character a digit character
IsDigit(s) == s # <<>> /\ \A i \in 1..Len(s) : s[i] \in DecimalDigits \cup SuperscriptDigits

\* int(s) raises ValueError unless s is a decimal literal
IntRaises(s) == s = <<>> \/ \E i \in 1..Len(s) : s[i] \notin DecimalDigits

DigitValue(c) ==
    CASE c = "0" -> 0 [] c = "1" -> 1 [] c = "2" -> 2 [] c = "3" -> 3 [] c = "4" -> 4
      [] c = "5" -> 5 [] c = "6" -> 6 [] c = "7" -> 7 [] c = "8" -> 8 [] c = "9" -> 9

DigitChar(d) ==
    CASE d = 0 -> "0" [] d = 1 -> "1" [] d = 2 -> "2" [] d = 3 -> "3" [] d = 4 -> "4"
      [] d = 5 -> "5" [] d = 6 -> "6" [] d = 7 -> "7" [] d = 8 -> "8" [] d = 9 -> "9"

RECURSIVE IntOf(_)
IntOf(s) ==
    IF s = <<>> THEN 0
    ELSE IntOf(SubSeq(s, 1, Len(s) - 1)) * 10 + DigitValue(s[Len(s)])

RECURSIVE StrOfInt(_)
StrOfInt(n) == IF n < 10 THEN <<DigitChar(n)>> ELSE StrOfInt(n \div 10) \o <<DigitChar(n % 10)>>

(***************************************************************************)
(* re: the marker pattern \{(\d+)\} of process_tafsir_file.                *)
(***************************************************************************)
RECURSIVE DigitRun(_, _)
\* the number of decimal digits of s starting at position i (greedy \d+)
DigitRun(s, i) ==
    IF i <= Len(s) /\ s[i] \in DecimalDigits THEN 1 + DigitRun(s, i + 1) ELSE 0

\* the length of the match of \{\d+\} at position i of s, or 0
MarkerAt(s, i) ==
    IF i <= Len(s) /\ s[i] = "{"
    THEN LET n == DigitRun(s, i + 1)
         IN  IF n >= 1 /\ i + n + 1 <= Len(s) /\ s[i + n + 1] = "}" THEN n + 2 ELSE 0
    ELSE 0

RECURSIVE FindMarkersFrom(_, _)
FindMarkersFrom(s, i) ==
    IF i > Len(s) THEN <<>>
    ELSE LET n == MarkerAt(s, i)
         IN  IF n > 0
             THEN <<SubSeq(s, i + 1, i + n - 2)>> \o FindMarkersFrom(s, i + n)
             ELSE FindMarkersFrom(s, i + 1)

\* re.findall(r"\{(\d+)\}", s): group 1 of the non-overlapping matches, left to right
FindMarkers(s) == FindMarkersFrom(s, 1)

RECURSIVE RemoveMarkersFrom(_, _)
RemoveMarkersFrom(s, i) ==
    IF i > Len(s) THEN <<>>
    ELSE LET n == MarkerAt(s, i)
         IN  IF n > 0
             THEN RemoveMarkersFrom(s, i + n)
             ELSE <<s[i]>> \o RemoveMarkersFrom(s, i + 1)

\* re.sub(r"\{\d+\}", "", s): one left-to-right pass, the result is not rescanned
RemoveMarkers(s) == RemoveMarkersFrom(s, 1)

\* re.search(word, s) for a literal word
Contains(s, w) ==
    \E i \in 1..(Len(s) - Len(w) + 1) : SubSeq(s, i, i + Len(w) - 1) = w

(***************************************************************************)
(* re: a backtracking matcher for the header patterns of parse_sura_info.  *)
(* A pattern is a sequence of items, matched from position 1 of the text   *)
(* (both patterns start with ^ and re.MULTILINE is not set):               *)
(*   Lit(s)        the characters s, compared ignoring case (re.I)         *)
(*   Rep(C, n, b)  a greedy run of characters of C: at least n, and        *)
(*                 unbounded or at most one                                *)
(*   Grp           the lazy capturing group (.+?)                          *)
(***************************************************************************)
Lit(s) == [t |-> "lit", s |-> s, cls |-> {}, min |-> 0, unbounded |-> FALSE]
Rep(C, n, b) == [t |-> "rep", s |-> <<>>, cls |-> C, min |-> n, unbounded |-> b]
Grp == [t |-> "grp", s |-> <<>>, cls |-> {}, min |-> 1, unbounded |-> TRUE]

NoMatch == [ok |-> FALSE, caps |-> <<>>]

LitAt(text, pos, s) ==
    /\ pos + Len(s) - 1 <= Len(text)
    /\ \A j \in 1..Len(s) : LowerChar(text[pos + j - 1]) = LowerChar(s[j])

RECURSIVE ClassRun(_, _, _)
ClassRun(text, pos, C) ==
    IF pos <= Len(text) /\ text[pos] \in C THEN 1 + ClassRun(text, pos + 1, C) ELSE 0

RECURSIVE Match(_, _, _, _)
RECURSIVE TryGreedy(_, _, _, _, _)
RECURSIVE TryLazy(_, _, _, _, _)

\* the first match, in re's backtracking order, of items k.. of pat at pos
Match(pat, k, text, pos) ==
    IF k > Len(pat) THEN [ok |-> TRUE, caps |-> <<>>]
    ELSE LET it == pat[k]
         IN  CASE it.t = "lit" ->
                    IF LitAt(text, pos, it.s)
                    THEN Match(pat, k + 1, text, pos + Len(it.s))
                    ELSE NoMatch
               [] it.t = "rep" ->
                    LET run == ClassRun(text, pos, it.cls)
                        most == IF it.unbounded \/ run = 0 THEN run ELSE 1
                    IN  TryGreedy(pat, k, text, pos, most)
               [] it.t = "grp" -> TryLazy(pat, k, text, pos, 1)

\* a greedy run takes n characters, then fewer
TryGreedy(pat, k, text, pos, n) ==
    IF n < pat[k].min THEN NoMatch
    ELSE LET r == Match(pat, k + 1, text, pos + n)
         IN  IF r.ok THEN r ELSE TryGreedy(pat, k, text, pos, n - 1)

\* a lazy group takes the fewest characters (at least n, none of them a newline)
\* after which the rest of the pattern matches
TryLazy(pat, k, text, pos, n) ==
    LET fits == {m \in n..(Len(text) - pos + 1) :
                    /\ \A j \in pos..(pos + m - 1) : text[j] # "\n"
                    /\ Match(pat, k + 1, text, pos + m).ok}
    IN  IF fits = {} THEN NoMatch
        ELSE LET m == CHOOSE x \in fits : \A y \in fits : x <= y
             IN  [ok |-> TRUE,
                  caps |-> <<SubSeq(text, pos, pos + m - 1)>>
                           \o Match(pat, k + 1, text, pos + m).caps]

\* re.search(pattern, text, re.I) for a pattern anchored with ^
Search(pat, text) == Match(pat, 1, text, 1)

(***************************************************************************)
(* parse_sura_info                                                         *)
(***************************************************************************)
Brace(open) == Lit(IF open THEN <<"{">> ELSE <<"}">>)
Spaces(n) == Rep(Whitespace, n, TRUE)

\* ^\d+\.\s*(.+?)\s+Name\s*\{(.+?)\}\s+Theme\s*\{(.+?)\}
SimplePattern ==
    << Rep(DecimalDigits, 1, TRUE), Lit(<<".">>), Spaces(0), Grp, Spaces(1),
       Lit(<<"N","a","m","e">>), Spaces(0), Brace(TRUE), Grp, Brace(FALSE), Spaces(1),
       Lit(<<"T","h","e","m","e">>), Spaces(0), Brace(TRUE), Grp, Brace(FALSE) >>

\* ^\d+\.\s*(.+?)\s+Name\s*\{(.+?)\}\s+Historical Background\s*\{(.+?)\}\s+Theme:?\s*\{(.+?)\}
\*   \s+Topics and their Interconnection\s*\{(.+?)\}
FullPattern ==
    << Rep(DecimalDigits, 1, TRUE), Lit(<<".">>), Spaces(0), Grp, Spaces(1),
       Lit(<<"N","a","m","e">>), Spaces(0), Brace(TRUE), Grp, Brace(FALSE), Spaces(1),
       Lit(<<"H","i","s","t","o","r","i","c","a","l"," ","B","a","c","k","g","r","o","u","n","d">>),
       Spaces(0), Brace(TRUE), Grp, Brace(FALSE), Spaces(1),
       Lit(<<"T","h","e","m","e">>), Rep({":"}, 0, FALSE), Spaces(0), Brace(TRUE), Grp,
       Brace(FALSE), Spaces(1),
       Lit(<<"T","o","p","i","c","s"," ","a","n","d"," ","t","h","e","i","r"," ","I","n","t","e","r","c","o","n","n","e","c","t","i","o","n">>),
       Spaces(0), Brace(TRUE), Grp, Brace(FALSE) >>

\* the ordered list `patterns`: (pattern, keys)
patterns ==
    << [re |-> SimplePattern, keys |-> <<"name", "description", "theme">>],
       [re |-> FullPattern,
        keys |-> <<"name", "description", "historical_background", "theme",
                   "topics_interconnection">>] >>

\* {k: match.group(i+1).strip() for i, k in enumerate(keys)}
GroupDict(keys, caps) ==
    [k \in {keys[i] : i \in 1..Len(keys)} |->
        Strip(caps[CHOOSE i \in 1..Len(keys) : keys[i] = k])]

RECURSIVE FirstMatch(_, _, _)
FirstMatch(pats, i, text) ==
    IF i > Len(pats) THEN [k \in {"raw"} |-> text]
    ELSE LET m == Search(pats[i].re, text)
         IN  IF m.ok THEN GroupDict(pats[i].keys, m.caps) ELSE FirstMatch(pats, i + 1, text)

parse_sura_info(text) == FirstMatch(patterns, 1, Strip(text))

(***************************************************************************)
(* extract_themes                                                          *)
(***************************************************************************)
\* theme_patterns, in declaration order; each pattern is an alternation of words
theme_patterns ==
    << [theme |-> "divine mercy", words |-> {<<"m","e","r","c","y">>, <<"c","o","m","p","a","s","s","i","o","n">>, <<"f","o","r","g","i","v","e","n","e","s","s">>}],
       [theme |-> "prophethood", words |-> {<<"p","r","o","p","h","e","t">>, <<"m","e","s","s","e","n","g","e","r">>, <<"r","e","v","e","l","a","t","i","o","n">>}],
       [theme |-> "law", words |-> {<<"l","a","w">>, <<"c","o","m","m","a","n","d","m","e","n","t">>, <<"d","e","c","r","e","e">>}],
       [theme |-> "parables", words |-> {<<"p","a","r","a","b","l","e">>, <<"e","x","a","m","p","l","e">>, <<"s","t","o","r","y">>}] >>

RECURSIVE ThemesOf(_, _, _)
ThemesOf(tp, i, lower_text) ==
    IF i > Len(tp) THEN <<>>
    ELSE (IF \E w \in tp[i].words : Contains(lower_text, w) THEN <<tp[i].theme>> ELSE <<>>)
         \o ThemesOf(tp, i + 1, lower_text)

\* extract_themes matching against the text as it is, not lower-cased
extract_themes_no_lower(text) == ThemesOf(theme_patterns, 1, text)

extract_themes(text) == ThemesOf(theme_patterns, 1, Lower(text))

(***************************************************************************)
(* advanced_analysis.  What NLTK and spaCy compute is outside the model:   *)
(* a stored result is the value Computed.  fault names where the services  *)
(* raise: "none", "nltk" (before results["keywords"] is stored) or "spacy" *)
(* (after the frequency results are stored, before named_entities is).     *)
(***************************************************************************)
Computed == <<"computed">>
Now == <<"now">>
Faults == {"none", "nltk", "spacy"}

Put(f, k, v) == [x \in DOMAIN f \cup {k} |-> IF x = k THEN v ELSE f[x]]

\* advanced_analysis losing what was stored when a service raises
advanced_analysis_discards(text, fault) ==
    IF fault = "none"
    THEN [k \in {"keywords", "freq_dist", "named_entities", "noun_chunks"} |-> Computed]
    ELSE EmptyMap

advanced_analysis(text, fault) ==
    LET afterNltk == Put(Put(EmptyMap, "keywords", Computed), "freq_dist", Computed)
        afterSpacy == Put(Put(afterNltk, "named_entities", Computed), "noun_chunks", Computed)
    IN  CASE fault = "nltk" -> EmptyMap
          [] fault = "spacy" -> afterNltk
          [] fault = "none" -> afterSpacy

(***************************************************************************)
(* The parsed document: root.attrib, and the sura elements with their      *)
(* aya and footer children in document order.                              *)
(***************************************************************************)
\* dict.get(key): None when the key is absent
Get(attrib, key) == IF key \in DOMAIN attrib THEN Some(attrib[key]) ELSE None

\* the truth value of an optional string: neither None nor ""
Truthy(opt) == opt # None /\ opt[1] # <<>>

\* element.findall(tag): the children with that tag, in document order
findall(element, tag) == SelectSeq(element.children, LAMBDA e : e.tag = tag)

\* root.attrib.get("name", "Unknown")
qurantafseer_name(root) ==
    IF "name" \in DOMAIN root.attrib THEN root.attrib["name"] ELSE <<"U","n","k","n","o","w","n">>

(***************************************************************************)
(* process_tafsir_file, per chapter.                                       *)
(***************************************************************************)
RECURSIVE CollectFooters(_, _, _)
\* the loop over sura.findall("footer"), started from mapping
CollectFooters(footers, i, mapping) ==
    IF i > Len(footers) THEN mapping
    ELSE LET f_index == Get(footers[i].attrib, "index")
             f_text == Get(footers[i].attrib, "text")
         IN  CollectFooters(footers, i + 1,
                IF Truthy(f_index) /\ Truthy(f_text)
                THEN Put(mapping, f_index[1], f_text[1])
                ELSE mapping)

\* the mapping of the chapter before, kept
StaleFooterMapping == footer_mapping

\* footer_mapping: Dict[str, str] = {}
NewFooterMapping == EmptyMap

RECURSIVE LinkFootersSynthesized(_, _, _)
\* LinkFooters with an entry made for every marker, footnote or not
LinkFootersSynthesized(markers, mapping, footers) ==
    IF markers = <<>> THEN footers
    ELSE LinkFootersSynthesized(Tail(markers), mapping,
            Put(footers, Head(markers),
                IF Head(markers) \in DOMAIN mapping THEN mapping[Head(markers)] ELSE <<>>))

RECURSIVE LinkFooters(_, _, _)
\* for marker in markers: if marker in footer_mapping: footers[marker] = ...
LinkFooters(markers, mapping, footers) ==
    IF markers = <<>> THEN footers
    ELSE LinkFooters(Tail(markers), mapping,
            IF Head(markers) \in DOMAIN mapping
            THEN Put(footers, Head(markers), mapping[Head(markers)])
            ELSE footers)

\* clean_text = re.sub(r"\{\d+\}", "", text_attr).strip()
CleanText(text_attr) == Strip(RemoveMarkers(text_attr))

\* the analysis record of a verse: advanced_analysis, then themes and timestamp
Analysis(clean_text, fault) ==
    Put(Put(advanced_analysis(clean_text, fault), "themes", extract_themes(clean_text)),
        "advanced_analysis_timestamp", Now)

\* the aya_entry appended for an aya element other than the header
AyaEntry(aya_index, text_attr, mapping, fault) ==
    LET markers == FindMarkers(text_attr)
        clean_text == CleanText(text_attr)
    IN  [aya_index |-> aya_index,
         raw_text |-> text_attr,
         clean_text |-> clean_text,
         markers |-> markers,
         footers |-> LinkFooters(markers, mapping, EmptyMap),
         analysis |-> Analysis(clean_text, fault)]

\* int(sura_index) if sura_index and sura_index.isdigit() else sura_index
SuraIndexRaises(sura_index) ==
    Truthy(sura_index) /\ IsDigit(sura_index[1]) /\ IntRaises(sura_index[1])

SuraIndexValue(sura_index) ==
    IF Truthy(sura_index) /\ IsDigit(sura_index[1])
    THEN [kind |-> "int", n |-> IntOf(sura_index[1])]
    ELSE IF sura_index = None THEN [kind |-> "none"]
         ELSE [kind |-> "str", s |-> sura_index[1]]

SuraOutput(root, sura_index, info, entries) ==
    [qurantafseer |-> qurantafseer_name(root),
     sura_index |-> SuraIndexValue(sura_index),
     sura_info |-> info,
     ayah |-> entries,
     metadata |-> [processed_timestamp |-> Now, version |-> "2.0"]]

(***************************************************************************)
(* save_sura_analysis                                                      *)
(***************************************************************************)
\* the f-string rendering of a sura_index value
Format(v) ==
    CASE v.kind = "int" -> StrOfInt(v.n)
      [] v.kind = "str" -> v.s
      [] v.kind = "none" -> <<"N","o","n","e">>

\* sura_analysis.get("sura_index", "unknown")
SavedIndex(sura_analysis) ==
    IF "sura_index" \in DOMAIN sura_analysis
    THEN sura_analysis.sura_index
    ELSE [kind |-> "str", s |-> <<"u","n","k","n","o","w","n">>]

\* OUTPUT_DIR / f"sura_{sura_index}.json"
OutputFile(sura_analysis) == <<"s","u","r","a","_">> \o Format(SavedIndex(sura_analysis)) \o <<".","j","s","o","n">>

\* the outcomes of the write: done, or an exception in the try block.  The
\* failing write is open() raising, which leaves OUTPUT_DIR as it was; a
\* json.dump that raises after the file was truncated is not told apart.
WriteOutcomes == {"ok", "fails"}

LogEntry(level, event, detail) == [level |-> level, event |-> event, detail |-> detail]

\* save_sura_analysis without the except clause: a failing write propagates
save_sura_analysis_propagates(sura_analysis, outcome) ==
    [files |-> IF outcome = "ok"
               THEN Put(files, OutputFile(sura_analysis), sura_analysis) ELSE files,
     log |-> IF outcome = "ok"
             THEN Append(log, LogEntry("info", "saved", OutputFile(sura_analysis)))
             ELSE log,
     raised |-> outcome # "ok"]

\* try: open, json.dump, log / except Exception: log.  The result is the state
\* of OUTPUT_DIR and of the log afterwards, and whether an exception leaves
\* the method.
save_sura_analysis(sura_analysis, outcome) ==
    LET output_file == OutputFile(sura_analysis)
    IN  [files |-> IF outcome = "ok" THEN Put(files, output_file, sura_analysis) ELSE files,
         log |-> Append(log,
                    IF outcome = "ok"
                    THEN LogEntry("info", "saved", output_file)
                    ELSE LogEntry("error", "save_error", Format(sura_analysis.sura_index))),
         raised |-> FALSE]

(***************************************************************************)
(* The run: main() and process_tafsir_file, one action per step.           *)
(***************************************************************************)
CurrentSura == doc.suras[si]
CurrentAyas == findall(CurrentSura, "aya")

\* main without the tafsir_file.exists() check
main_without_exists_check ==
    /\ pc = "main"
    /\ log' = Append(log, LogEntry("info", "start", <<>>))
    /\ pc' = "parse"
    /\ UNCHANGED <<file, doc, si, ai, sura_info, aya_entries, footer_mapping, files>>

\* main, up to the call of process_tafsir_file (and that method's first log line)
main ==
    /\ pc = "main"
    /\ IF file = "missing"
       THEN /\ log' = Append(log, LogEntry("error", "not_found", <<>>))
            /\ pc' = "returned"
       ELSE /\ log' = Append(log, LogEntry("info", "start", <<>>))
            /\ pc' = "parse"
    /\ UNCHANGED <<file, doc, si, ai, sura_info, aya_entries, footer_mapping, files>>

\* LET.parse, getroot, root.attrib: raise for an artifact that is not there,
\* cannot be read, or from which no root is recovered
parse ==
    /\ pc = "parse"
    /\ IF file # "ok"
       THEN pc' = "process_except" /\ si' = si
       ELSE pc' = "sura_loop" /\ si' = 1
    /\ UNCHANGED <<file, doc, ai, sura_info, aya_entries, footer_mapping, files, log>>

\* the head of the sura loop: fresh chapter locals, then the footer loop
collect_footers ==
    /\ pc = "sura_loop"
    /\ si <= Len(doc.suras)
    /\ sura_info' = EmptyMap
    /\ aya_entries' = <<>>
    /\ footer_mapping' = CollectFooters(findall(CurrentSura, "footer"), 1, NewFooterMapping)
    /\ ai' = 1
    /\ pc' = "aya_loop"
    /\ UNCHANGED <<file, doc, si, files, log>>

\* one iteration of the aya loop
process_aya ==
    /\ pc = "aya_loop"
    /\ ai <= Len(CurrentAyas)
    /\ LET aya_index == Get(CurrentAyas[ai].attrib, "index")
           text_attr == Get(CurrentAyas[ai].attrib, "text")
       IN  IF ~Truthy(text_attr)
           THEN UNCHANGED <<sura_info, aya_entries, log>>
           ELSE IF aya_index = Some(<<"0">>)
                THEN /\ sura_info' = parse_sura_info(text_attr[1])
                     /\ UNCHANGED <<aya_entries, log>>
                ELSE \E fault \in Faults :
                        /\ aya_entries' =
                              Append(aya_entries,
                                     AyaEntry(aya_index, text_attr[1], footer_mapping, fault))
                        /\ log' = IF fault = "none" THEN log
                                  ELSE Append(log, LogEntry("error", "nlp_error", <<fault>>))
                        /\ UNCHANGED sura_info
    /\ ai' = ai + 1
    /\ UNCHANGED <<file, doc, pc, si, footer_mapping, files>>

\* ChapterRaised with the failure isolated per chapter: on to the next sura
ChapterSkipped ==
    /\ pc' = "sura_loop"
    /\ si' = si + 1
    /\ UNCHANGED <<files, log>>

\* an exception inside the sura loop leaves the loop for `except Exception`
ChapterRaised ==
    /\ pc' = "process_except"
    /\ UNCHANGED <<si, files, log>>

\* the end of a chapter: build sura_output, save_sura_analysis, gc.collect
save_sura ==
    /\ pc = "aya_loop"
    /\ ai > Len(CurrentAyas)
    /\ LET sura_index == Get(CurrentSura.attrib, "index")
       IN  IF SuraIndexRaises(sura_index)
           THEN ChapterRaised
           ELSE \E outcome \in WriteOutcomes :
                   LET saved == save_sura_analysis(
                                   SuraOutput(doc, sura_index, sura_info, aya_entries),
                                   outcome)
                   IN  /\ files' = saved.files
                       /\ log' = saved.log
                       /\ IF saved.raised
                          THEN pc' = "process_except" /\ si' = si
                          ELSE pc' = "sura_loop" /\ si' = si + 1
    /\ UNCHANGED <<file, doc, ai, sura_info, aya_entries, footer_mapping>>

\* the loop is exhausted: both "complete" log lines, main returns
completed ==
    /\ pc = "sura_loop"
    /\ si > Len(doc.suras)
    /\ log' = log \o << LogEntry("info", "completed", <<>>),
                        LogEntry("info", "complete", <<>>) >>
    /\ pc' = "done"
    /\ UNCHANGED <<file, doc, si, ai, sura_info, aya_entries, footer_mapping, files>>

\* except Exception in process_tafsir_file: log, raise
process_except ==
    /\ pc = "process_except"
    /\ log' = Append(log, LogEntry("error", "process_error", <<>>))
    /\ pc' = "main_except"
    /\ UNCHANGED <<file, doc, si, ai, sura_info, aya_entries, footer_mapping, files>>

\* except Exception in main: log, raise; asyncio.run lets it end the process
main_except ==
    /\ pc = "main_except"
    /\ log' = Append(log, LogEntry("error", "main_error", <<>>))
    /\ pc' = "raised"
    /\ UNCHANGED <<file, doc, si, ai, sura_info, aya_entries, footer_mapping, files>>

Next ==
    \/ main
    \/ parse
    \/ collect_footers
    \/ process_aya
    \/ save_sura
    \/ completed
    \/ process_except
    \/ main_except

(***************************************************************************)
(* Documents.                                                              *)
(***************************************************************************)
Aya(index, text) == [tag |-> "aya", attrib |-> ("index" :> index) @@ ("text" :> text)]
Footer(index, text) == [tag |-> "footer", attrib |-> ("index" :> index) @@ ("text" :> text)]
\* an element without a text attribute
NoText(tag, index) == [tag |-> tag, attrib |-> ("index" :> index)]
\* a sura element; index is optional
Sura(index, children) ==
    [attrib |-> IF index = None THEN EmptyMap ELSE ("index" :> index[1]),
     children |-> children]
Root(suras) == [attrib |-> ("name" :> <<"M">>), suras |-> suras]

HeMerciful == <<"H","e"," ","i","s"," ","M","e","r","c","i","f","u","l"," ","a","n","d"," ","a"," ","P","r","o","p","h","e","t"," ","{","1","}">>
Commentary == <<"c","o","m","m","e","n","t","a","r","y">>
SimpleHeader == <<"1","."," ","A"," ","N","a","m","e"," ","{","d","}"," ","T","h","e","m","e"," ","{","t","}">>

Header == Aya(<<"0">>, SimpleHeader)
Verse == Aya(<<"1","-","3">>, HeMerciful)

CoreUnits == { Footer(<<"1">>, Commentary), Footer(<<"1">>, <<"o","t","h","e","r">>), Verse }

AllUnits ==
    CoreUnits \cup
    { Header,
      Aya(<<"4">>, <<"{","2","}"," ","a","{","1","}","{","2","}">>),
      NoText("footer", <<"2">>),
      NoText("aya", <<"5">>) }

SuraIndexes == { None, Some(<<"1">>), Some(<<"1","-","3">>), Some(<<"sup2">>) }

SeqsUpTo(S, n) == UNION {[1..k -> S] : k \in 0..n}

RECURSIVE BodiesWithin(_, _, _)
\* the sequences of k chapter bodies over units holding at most budget units
BodiesWithin(units, k, budget) ==
    IF k = 0 THEN {<<>>}
    ELSE UNION { {<<b>> \o rest : rest \in BodiesWithin(units, k - 1, budget - Len(b))} :
                 b \in SeqsUpTo(units, budget) }

\* chapters numbered 1, 2, ... with the given bodies
Numbered(bodies) == Root([i \in 1..Len(bodies) |-> Sura(Some(StrOfInt(i)), bodies[i])])

\* verses and footers spread over the chapters
BodyDocs ==
    { Numbered(bodies) :
        bodies \in UNION {BodiesWithin(CoreUnits, k, MaxUnits) : k \in 0..MaxSuras} }

\* chapters with and without a header verse
HeaderDocs == { Numbered(bodies) : bodies \in SeqsUpTo({<<>>, <<Header>>}, MaxSuras) }

\* chapters of one verse each, with every kind of index attribute
IndexDocs ==
    { Root([i \in 1..Len(ix) |-> Sura(ix[i], <<Verse>>)]) :
        ix \in SeqsUpTo(SuraIndexes, MaxSuras) }

\* one chapter over all units, the elements without text among them
UnitDocs == { Numbered(<<body>>) : body \in SeqsUpTo(AllUnits, MaxUnits) }

Docs == BodyDocs \cup HeaderDocs \cup IndexDocs \cup UnitDocs

NoDoc == Root(<<>>)

InitWith(documents) ==
    /\ file \in {"missing", "unreadable", "ok"}
    /\ doc \in (IF file = "ok" THEN documents ELSE {NoDoc})
    /\ pc = "main"
    /\ si = 0
    /\ ai = 0
    /\ sura_info = EmptyMap
    /\ aya_entries = <<>>
    /\ footer_mapping = EmptyMap
    /\ files = EmptyMap
    /\ log = <<>>

Init == InitWith(Docs)

Spec == Init /\ [][Next]_vars

(***************************************************************************)
(* Verse texts: one chapter with a footer and one verse, the verse text    *)
(* any string of marker characters up to MaxLen.                           *)
(***************************************************************************)
VerseAlphabet == {"{", "}", "1", " "}

VerseDocs ==
    { Numbered(<< <<Footer(<<"1">>, Commentary), Aya(<<"1">>, text)>> >>) :
        text \in SeqsUpTo(VerseAlphabet, MaxLen) }

InitVerse == InitWith(VerseDocs)

SpecVerse == InitVerse /\ [][Next]_vars

(***************************************************************************)
(* Header texts: one chapter whose only verse is the header.               *)
(***************************************************************************)
Names == {<<"A">>, <<"A","l"," ","B">>}
Segments == {<<"x">>, <<"y"," ","z">>}
Colons == {<<>>, <<":">>}

\* "<number>. <name> Name {<description>} Theme {<theme>}"
ShortHeader(name, description, theme) ==
    <<"1","."," ">> \o name \o <<" ","N","a","m","e"," ","{">> \o description \o <<"}"," ","T","h","e","m","e"," ","{">> \o theme \o <<"}">>

\* "<number>. <name> Name {<description>} Historical Background {<hist>}
\*  Theme[:] {<theme>} Topics and their Interconnection {<topics>}"
LongHeader(name, description, hist, colon, theme, topics) ==
    <<"1","."," ">> \o name \o <<" ","N","a","m","e"," ","{">> \o description \o <<"}"," ","H","i","s","t","o","r","i","c","a","l"," ","B","a","c","k","g","r","o","u","n","d"," ","{">> \o hist
    \o <<"}"," ","T","h","e","m","e">> \o colon \o <<" ","{">> \o theme \o <<"}"," ","T","o","p","i","c","s"," ","a","n","d"," ","t","h","e","i","r"," ","I","n","t","e","r","c","o","n","n","e","c","t","i","o","n"," ","{">>
    \o topics \o <<"}">>

HeaderTexts ==
    { ShortHeader(n, d, t) : n \in Names, d \in Segments, t \in Segments }
    \cup { LongHeader(n, d, h, c, t, p) :
             n \in Names, d \in Segments, h \in Segments, c \in Colons,
             t \in Segments, p \in Segments }
    \cup { <<"r","a","n","d","o","m"," ","u","n","r","e","l","a","t","e","d"," ","s","t","r","i","n","g">> }

LoneHeaderDocs == { Numbered(<< <<Aya(<<"0">>, text)>> >>) : text \in HeaderTexts }

InitHeader == InitWith(LoneHeaderDocs)

SpecHeader == InitHeader /\ [][Next]_vars

(***************************************************************************)
(* Claims.                                                                 *)
(***************************************************************************)
Range(seq) == {seq[i] : i \in DOMAIN seq}

\* s holds a brace-delimited integer: "{", one or more digits, "}"
HasMarker(s) ==
    \E i \in DOMAIN s : \E j \in DOMAIN s :
        /\ j > i + 1
        /\ s[i] = "{"
        /\ s[j] = "}"
        /\ \A k \in (i + 1)..(j - 1) : s[k] \in DecimalDigits

\* C1: the clean_text of every emitted verse record holds no brace-delimited
\* integer marker.
C1_CleanTextHasNoMarker ==
    \A i \in DOMAIN aya_entries : ~HasMarker(aya_entries[i].clean_text)

\* the header verse of the current chapter has been parsed
HeaderParsed == pc = "aya_loop" /\ ai = 2 /\ Len(CurrentAyas) = 1

\* C7: a header of the second template's shape, with or without the colon
\* after "Theme", parses to exactly the five fields, each equal to its segment.
C7_LongHeaderGivesFiveFields ==
    HeaderParsed =>
        \A n \in Names, d \in Segments, h \in Segments, c \in Colons,
           t \in Segments, p \in Segments :
            Get(CurrentAyas[1].attrib, "text") = Some(LongHeader(n, d, h, c, t, p))
            => sura_info = [name |-> n, description |-> d, historical_background |-> h,
                            theme |-> t, topics_interconnection |-> p]

(***************************************************************************)
(* The run as the log records it.                                          *)
(***************************************************************************)
Terminal == {"returned", "done", "raised"}
Excepting == {"process_except", "main_except", "raised"}

\* the calls of save_sura_analysis so far, in order: each logs exactly one line
PersisterCalls == SelectSeq(log, LAMBDA e : e.event \in {"saved", "save_error"})

Logged(event) == \E i \in DOMAIN log : log[i].event = event

SuraIndexOf(k) == Get(doc.suras[k].attrib, "index")

\* C2: footers has an entry for m iff m is among the verse's markers and a key
\* of the chapter's footnote mapping; the entry is that mapping's text for m.
C2_FootersIffMarkerWithFootnote ==
    \A i \in DOMAIN aya_entries :
        LET e == aya_entries[i]
        IN  \A m \in Range(e.markers) \cup DOMAIN footer_mapping \cup DOMAIN e.footers :
                /\ m \in DOMAIN e.footers
                     <=> (m \in Range(e.markers) /\ m \in DOMAIN footer_mapping)
                /\ m \in DOMAIN e.footers => e.footers[m] = footer_mapping[m]

\* a verse with one marker that has a footnote and one that has none
C2_Witness ==
    \E i \in DOMAIN aya_entries :
        \E m1 \in Range(aya_entries[i].markers), m2 \in Range(aya_entries[i].markers) :
            /\ m1 \in DOMAIN aya_entries[i].footers
            /\ m2 \notin DOMAIN aya_entries[i].footers
            /\ m2 \notin DOMAIN footer_mapping

\* C3: when assembling chapter k raises, the exception is logged and raised
\* again and the run stops: the loop never passes k, neither k nor a later
\* chapter is handed to the persister, and the files written before remain.
C3_ChapterErrorAbortsRun ==
    file = "ok" =>
        \A k \in DOMAIN doc.suras :
            SuraIndexRaises(SuraIndexOf(k)) =>
                /\ si <= k
                /\ Len(PersisterCalls) < k
                /\ pc # "done"
                /\ ~Logged("completed")
                /\ (si = k /\ pc \in Excepting) =>
                      /\ Len(PersisterCalls) = k - 1
                      /\ DOMAIN files =
                            {PersisterCalls[j].detail :
                                j \in {x \in 1..(k - 1) : PersisterCalls[x].event = "saved"}}
                      /\ \A name \in DOMAIN files : OutputFile(files[name]) = name
                /\ pc \in {"main_except", "raised"} => Logged("process_error")
                /\ pc = "raised" => Logged("main_error")
                /\ pc \in Terminal => pc = "raised"

\* the second chapter raised after the first was written
C3_Witness ==
    /\ pc = "raised"
    /\ si = 2
    /\ SuraIndexRaises(SuraIndexOf(2))
    /\ DOMAIN files # {}
    /\ Len(PersisterCalls) = 1

\* C4: a failing write is caught and logged and the run goes on: every chapter
\* is handed to the persister whatever became of the writes before it, and the
\* run raises only where the assembly of a chapter raises.
C4_WriteFailureDoesNotStopRun ==
    file = "ok" =>
        /\ pc \in {"sura_loop", "aya_loop"} => Len(PersisterCalls) = si - 1
        /\ pc = "done" => Len(PersisterCalls) = Len(doc.suras)
        /\ pc \in Excepting =>
              /\ si \in DOMAIN doc.suras
              /\ SuraIndexRaises(SuraIndexOf(si))
        /\ (\A k \in DOMAIN doc.suras : ~SuraIndexRaises(SuraIndexOf(k)))
              => (pc \in Terminal => pc = "done")

\* the write of a chapter failed, a later chapter was still saved, the run is done
C4_Witness ==
    /\ pc = "done"
    /\ \E i \in DOMAIN PersisterCalls : \E j \in DOMAIN PersisterCalls :
          /\ i < j
          /\ PersisterCalls[i].event = "save_error"
          /\ PersisterCalls[j].event = "saved"

\* C5 as stated: with the artifact missing or unreadable the run ends with an
\* error raised out of main, writes nothing, and never ends as a success.
C5_LoadFailureIsFatal ==
    file # "ok" =>
        /\ files = EmptyMap
        /\ pc \in Terminal => pc = "raised"

\* C5 amended: a missing artifact is logged as an error and main returns
\* without raising; an unreadable one raises out of main; in both cases no
\* chapter is processed, nothing is written and "complete" is never logged.
C5_LoadFailureEndsRun ==
    file # "ok" =>
        /\ files = EmptyMap
        /\ pc \in {"main", "parse", "process_except", "main_except", "returned", "raised"}
        /\ ~Logged("complete")
        /\ pc \in Terminal =>
              IF file = "missing"
              THEN pc = "returned" /\ log = <<LogEntry("error", "not_found", <<>>)>>
              ELSE pc = "raised" /\ Logged("process_error") /\ Logged("main_error")

\* the artifact is missing and main has returned
C5_Witness == file = "missing" /\ pc = "returned" /\ Logged("not_found")

\* the file name the claim gives chapter k
ClaimedOutputFile(k) ==
    <<"s","u","r","a","_">> \o (IF SuraIndexOf(k) = None THEN <<"u","n","k","n","o","w","n">> ELSE SuraIndexOf(k)[1]) \o <<".","j","s","o","n">>

\* C6: a chapter is written to sura_<index>.json, and a chapter element with
\* no index attribute to sura_unknown.json.
C6_OutputFileFromIndex ==
    \A j \in DOMAIN PersisterCalls :
        PersisterCalls[j].event = "saved" => PersisterCalls[j].detail = ClaimedOutputFile(j)

FootnoteOne == (<<"1">> :> Commentary)

\* C8 as stated: the verse "He is Merciful and a Prophet {1}" with footnotes
\* {1: "commentary"} has both themes "divine mercy" and "prophethood", markers
\* ["1"] and footers {"1": "commentary"}.
C8_MercifulHasBothThemes ==
    \A i \in DOMAIN aya_entries :
        (aya_entries[i].raw_text = HeMerciful /\ footer_mapping = FootnoteOne) =>
            /\ "divine mercy" \in Range(aya_entries[i].analysis["themes"])
            /\ "prophethood" \in Range(aya_entries[i].analysis["themes"])
            /\ aya_entries[i].markers = << <<"1">> >>
            /\ aya_entries[i].footers = FootnoteOne

\* C8 amended: that verse has the theme "prophethood" and not "divine mercy"
\* ("merciful" holds none of mercy, compassion, forgiveness), markers ["1"]
\* and footers {"1": "commentary"}.
C8_MercifulHasProphethoodOnly ==
    \A i \in DOMAIN aya_entries :
        (aya_entries[i].raw_text = HeMerciful /\ footer_mapping = FootnoteOne) =>
            /\ aya_entries[i].analysis["themes"] = <<"prophethood">>
            /\ aya_entries[i].clean_text = <<"H","e"," ","i","s"," ","M","e","r","c","i","f","u","l"," ","a","n","d"," ","a"," ","P","r","o","p","h","e","t">>
            /\ aya_entries[i].markers = << <<"1">> >>
            /\ aya_entries[i].footers = FootnoteOne

C8_Witness ==
    \E i \in DOMAIN aya_entries :
        aya_entries[i].raw_text = HeMerciful /\ footer_mapping = FootnoteOne

NlpError(fault) == LogEntry("error", "nlp_error", <<fault>>)

\* C9: a step in which the annotator fails appends the verse record all the
\* same and stays in the aya loop; the record has themes and timestamp, and
\* keeps keywords and freq_dist when it was the spaCy pass that failed.
C9_AnnotatorFailureKeepsVerse ==
    [][\A fault \in {"nltk", "spacy"} :
          log' = Append(log, NlpError(fault)) =>
              /\ pc' = "aya_loop"
              /\ ai' = ai + 1
              /\ Len(aya_entries') = Len(aya_entries) + 1
              /\ SubSeq(aya_entries', 1, Len(aya_entries)) = aya_entries
              /\ LET entry == aya_entries'[Len(aya_entries')]
                 IN  /\ entry.raw_text = CurrentAyas[ai].attrib["text"]
                     /\ entry.analysis["themes"] = extract_themes(entry.clean_text)
                     /\ DOMAIN entry.analysis =
                           {"themes", "advanced_analysis_timestamp"}
                           \cup (IF fault = "spacy" THEN {"keywords", "freq_dist"} ELSE {})
      ]_vars

\* spaCy failed on a verse and its record is there, with the frequency results
C9_Witness ==
    /\ \E i \in DOMAIN log : log[i] = NlpError("spacy")
    /\ \E i \in DOMAIN aya_entries :
          DOMAIN aya_entries[i].analysis =
              {"keywords", "freq_dist", "themes", "advanced_analysis_timestamp"}

\* the positions of the footer units of a chapter that carry a footnote for m
FootnotePositions(sura, m) ==
    {i \in DOMAIN sura.children :
        /\ sura.children[i].tag = "footer"
        /\ Get(sura.children[i].attrib, "index") = Some(m)
        /\ Truthy(Get(sura.children[i].attrib, "text"))}

\* the footnote of a chapter for m: the text of the last such unit
FootnoteFor(sura, m) ==
    IF m = <<>> \/ FootnotePositions(sura, m) = {} THEN None
    ELSE LET last == CHOOSE i \in FootnotePositions(sura, m) :
                        \A j \in FootnotePositions(sura, m) : j <= i
         IN  Some(sura.children[last].attrib["text"])

\* the aya elements of the current chapter the loop has passed that have text
PassedAyas == SelectSeq(SubSeq(CurrentAyas, 1, ai - 1),
                        LAMBDA a : Truthy(Get(a.attrib, "text")))
IsHeader(a) == Get(a.attrib, "index") = Some(<<"0">>)
PassedHeaders == SelectSeq(PassedAyas, IsHeader)
PassedVerses == SelectSeq(PassedAyas, LAMBDA a : ~IsHeader(a))

\* C10: while a chapter is assembled, every footer of its verse records is
\* the chapter's own footnote for that marker (the last footer unit with that
\* index, wherever it stands), the verse list holds the chapter's own verses
\* and no others, and sura_info comes from the chapter's own header or is empty.
C10_ChapterStateIsItsOwn ==
    pc = "aya_loop" =>
        /\ Len(aya_entries) = Len(PassedVerses)
        /\ \A i \in DOMAIN aya_entries :
              /\ aya_entries[i].raw_text = PassedVerses[i].attrib["text"]
              /\ \A m \in Range(aya_entries[i].markers) \cup DOMAIN aya_entries[i].footers :
                    Get(aya_entries[i].footers, m) = FootnoteFor(CurrentSura, m)
        /\ sura_info = IF PassedHeaders = <<>> THEN EmptyMap
                       ELSE parse_sura_info(
                               PassedHeaders[Len(PassedHeaders)].attrib["text"])

\* in the second chapter, a verse takes its footnote from a footer that
\* follows it, where the first chapter has another text for the same index
C10_Witness ==
    /\ pc = "aya_loop"
    /\ si = 2
    /\ \E i \in DOMAIN aya_entries :
          /\ <<"1">> \in DOMAIN aya_entries[i].footers
          /\ FootnoteFor(doc.suras[1], <<"1">>) # None
          /\ FootnoteFor(doc.suras[1], <<"1">>) # Some(aya_entries[i].footers[<<"1">>])
          /\ CurrentSura.children[1].tag = "aya"

====
